---------------------------- MODULE Spec2Model ----------------------------
(***************************************************************************)
(* Model of frlinw/modelize: schema-described entities, their validator,   *)
(* their wire payload and the fetch lifecycle of src/lib/model.js (the     *)
(* revision that starts at line 1612) with the type contracts of           *)
(* src/unnamed/part_001.                                                   *)
(***************************************************************************)
EXTENDS Integers, Sequences, FiniteSets, TLC

VARIABLES
  registry,   \* which revision of the association contracts is registered
  self,       \* the Entity instance the caller holds (identity never changes)
  states,     \* self.$modelize.states
  ops,        \* the fetch() calls issued so far, one record per call
  now,        \* the clock of the event loop, in seconds
  events,     \* number of ModelizeFetchError events dispatched on document
  uncaught,   \* number of errors thrown in timer callbacks (nobody catches them)
  lastValid,  \* what the last _validQuietly() call did
  lastSave,   \* what the last _beforeSaveItem() call did
  named,      \* the fields every valid() call so far has named (history)
  probe,      \* input and output of a function of the class evaluated alone
  fetchOptions, \* this.$modelize.fetch.options: the call in ops whose options
              \* were saved last (0: $modelize has no fetch)
  lastEdit,   \* what the last add(), remove() or toggle() call did
  edits       \* number of add(), remove() and toggle() calls so far (history)

vars == <<registry, self, states, ops, now, events, uncaught, lastValid, lastSave,
          named, probe, fetchOptions, lastEdit, edits>>

---------------------------------------------------------------------------
(* JavaScript values.  Strings are sequences of one-character strings.      *)

Undefined == [k |-> "undefined"]
Null == [k |-> "null"]
Str(s) == [k |-> "str", s |-> s]
Bool(b) == [k |-> "bool", b |-> b]
Num(n) == [k |-> "num", n |-> n]
Arr(list) == [k |-> "arr", list |-> list]
Obj(props) == [k |-> "obj", props |-> props]

EmptyProps == [n \in {} |-> Null]

\* has(object, key): own property test
has(props, key) == key \in DOMAIN props

\* object[key]: a missing property reads as undefined
Read(props, key) == IF key \in DOMAIN props THEN props[key] ELSE Undefined

\* JavaScript truthiness of a value (used by `if (!value)` and `a || b`)
Truthy(v) ==
  CASE v.k = "undefined" -> FALSE
    [] v.k = "null" -> FALSE
    [] v.k = "str" -> v.s # <<>>
    [] v.k = "bool" -> v.b
    [] v.k = "num" -> v.n # 0 \/ "f" \in DOMAIN v
    [] OTHER -> TRUE

isString(v) == v.k = "str"
isBoolean(v) == v.k = "bool"
isArray(v) == v.k = "arr"
isObject(v) == v.k \in {"obj", "item", "coll"}
isNumber(v) == v.k = "num"
isInteger(v) == isNumber(v) /\ "f" \notin DOMAIN v

Letters == {"a", "b"}
EmailLocal == Letters \cup {".", "_", "-"}
EmailHost == Letters \cup {"-"}

\* /[a-zA-Z0-9._-]+@[a-zA-Z0-9-]+\.[a-zA-Z]+/.test(value), an unanchored search
isEmail(v) ==
  \E i \in 1..Len(v.s) :
    /\ v.s[i] = "@"
    /\ i > 1 /\ v.s[i - 1] \in EmailLocal
    /\ \E j \in (i + 2)..Len(v.s) :
         /\ v.s[j] = "."
         /\ \A h \in (i + 1)..(j - 1) : v.s[h] \in EmailHost
         /\ j < Len(v.s) /\ v.s[j + 1] \in Letters

---------------------------------------------------------------------------
(* The conversions of the static types: formatting.js and the built-ins     *)
(* they call.  A number is Num(n), or Dec(n, f) with the digits f after the *)
(* point; a Date is an instant t in hours since the epoch; the local time   *)
(* zone is tz hours east of UTC.  A date-only string names a calendar day,  *)
(* written "d" and the day number; an ISO date-time string names an         *)
(* instant, written "t" and the hour number.                                *)

Dec(n, f) == [k |-> "num", n |-> n, f |-> f]
Date(t) == [k |-> "date", t |-> t, valid |-> TRUE]
InvalidDate == [k |-> "date", t |-> 0, valid |-> FALSE]

\* isDate(value): value instanceof Date && !Number.isNaN(value.valueOf())
isDate(v) == v.k = "date" /\ v.valid

DigitChars == <<"0", "1", "2", "3", "4", "5", "6", "7", "8", "9">>
IsDigit(c) == \E d \in 1..10 : DigitChars[d] = c
DigitValue(c) == (CHOOSE d \in 1..10 : DigitChars[d] = c) - 1
IsHex(c) == IsDigit(c) \/ c \in {"a", "b", "c", "d", "e", "f"}

RECURSIVE NumberToString(_)
\* String(n) of a non-negative integer
NumberToString(n) ==
  IF n < 10 THEN <<DigitChars[n + 1]>>
  ELSE Append(NumberToString(n \div 10), DigitChars[(n % 10) + 1])

\* String(value) as parseInt and parseFloat apply it to their argument
StringOf(v) ==
  IF v.k = "str" THEN v.s
  ELSE IF v.k = "num"
       THEN IF "f" \in DOMAIN v THEN NumberToString(v.n) \o <<".">> \o v.f
            ELSE IF v.n >= 0 THEN NumberToString(v.n)
            ELSE <<"-">> \o NumberToString(-v.n)
       ELSE <<"x">>   \* 'null', 'true', '[object Object]': no leading number

\* the length of the longest prefix of s from position i made of digits
RECURSIVE DigitRun(_, _)
DigitRun(s, i) == IF i <= Len(s) /\ IsDigit(s[i]) THEN 1 + DigitRun(s, i + 1) ELSE 0

RECURSIVE DigitsToNumber(_)
DigitsToNumber(s) ==
  IF s = <<>> THEN 0
  ELSE 10 * DigitsToNumber(SubSeq(s, 1, Len(s) - 1)) + DigitValue(s[Len(s)])

\* Number.parseInt(value) followed by the test isNumber(parsedValue): the
\* leading integer of the string, null when there is none (NaN)
parseInt(v) ==
  LET s == StringOf(v)
      signed == s # <<>> /\ s[1] = "-"
      from == IF signed THEN 2 ELSE 1
      run == DigitRun(s, from)
      n == DigitsToNumber(SubSeq(s, from, from + run - 1))
  IN IF run = 0 THEN Null ELSE Num(IF signed THEN -n ELSE n)

\* Number.parseFloat(value) followed by the test isNumber(parsedValue)
parseFloat(v) ==
  LET s == StringOf(v)
      signed == s # <<>> /\ s[1] = "-"
      from == IF signed THEN 2 ELSE 1
      run == DigitRun(s, from)
      n == DigitsToNumber(SubSeq(s, from, from + run - 1))
      dot == from + run
      frac == IF dot <= Len(s) /\ s[dot] = "." THEN DigitRun(s, dot + 1) ELSE 0
      f == SubSeq(s, dot + 1, dot + frac)
  IN IF run = 0 THEN Null
     ELSE IF frac = 0 \/ \A i \in 1..Len(f) : f[i] = "0"
          THEN Num(IF signed THEN -n ELSE n)
          ELSE Dec(IF signed THEN -n ELSE n, f)

RECURSIVE formatPhoneFrom(_, _)
\* formatPhone(value): a leading '+' and the digits are kept
formatPhoneFrom(s, index) ==
  IF index > Len(s) THEN <<>>
  ELSE (IF (index = 1 /\ s[index] = "+") \/ IsDigit(s[index]) THEN <<s[index]>> ELSE <<>>)
       \o formatPhoneFrom(s, index + 1)

formatPhone(v) == Str(formatPhoneFrom(v.s, 1))

\* value.replace(/([0-9a-f]{8})([0-9a-f]{4})([0-9a-f]{4})([0-9a-f]{4})([0-9a-f]{12})/,
\* '$1-$2-$3-$4-$5'): the first run of 32 hexadecimal digits gets its dashes
dashUuid(v) ==
  LET s == v.s
      starts == {p \in 1..(Len(s) - 31) : \A i \in 0..31 : IsHex(s[p + i])}
  IN IF starts = {} THEN v
     ELSE LET p == CHOOSE q \in starts : \A r \in starts : q <= r IN
          Str(SubSeq(s, 1, p + 7) \o <<"-">> \o SubSeq(s, p + 8, p + 11) \o <<"-">>
              \o SubSeq(s, p + 12, p + 15) \o <<"-">> \o SubSeq(s, p + 16, p + 19)
              \o <<"-">> \o SubSeq(s, p + 20, Len(s)))

\* value.replace(/-/g, '')
undashUuid(v) == Str(SelectSeq(v.s, LAMBDA c : c # "-"))

\* the offset of the local time zone where a conversion is evaluated alone
LocalOffset == probe.tz

\* the calendar day of an instant in the zone tz hours east of UTC
LocalDay(t, tz) == (t + tz) \div 24

\* formatDateOnly(date): getFullYear, getMonth and getDate are local
formatDateOnly(date, tz) == Str(<<"d">> \o NumberToString(LocalDay(date.t, tz)))

\* date.toISOString()
toISOString(date) == Str(<<"t">> \o NumberToString(date.t))

\* parseDate(dateString) = new Date(dateString): a date-only string is read as
\* midnight UTC of its day, a date-time string as its instant, anything else
\* gives an invalid Date
parseDate(v) ==
  LET s == v.s
      wellFormed == Len(s) > 1 /\ DigitRun(s, 2) = Len(s) - 1
  IN IF wellFormed /\ s[1] = "d" THEN Date(24 * DigitsToNumber(Tail(s)))
     ELSE IF wellFormed /\ s[1] = "t" THEN Date(DigitsToNumber(Tail(s)))
     ELSE InvalidDate

---------------------------------------------------------------------------
(* The schemas compiled by Model.init.  Two entity kinds: User has one      *)
(* Child (HASONE) and many Child (HASMANY).                                 *)

Models == {"User", "Child"}

\* the fields of a schema, in declaration order (the order of for..in)
SchemaFields(model) ==
  IF model = "User" THEN <<"id", "email", "child", "kids">> ELSE <<"id", "label">>

FieldSet(model) == {SchemaFields(model)[i] : i \in 1..Len(SchemaFields(model))}

\* the field configuration after Model.init has filled in the defaults
FieldConf(model, f) ==
  CASE f = "id" ->
         [type |-> "STRING", model |-> "", primaryKey |-> TRUE, allowBlank |-> FALSE]
    [] f = "email" ->
         [type |-> "EMAIL", model |-> "", primaryKey |-> FALSE, allowBlank |-> FALSE]
    [] f = "label" ->
         [type |-> "STRING", model |-> "", primaryKey |-> FALSE, allowBlank |-> FALSE]
    [] f = "child" ->
         [type |-> "HASONE", model |-> "Child", primaryKey |-> FALSE, allowBlank |-> TRUE]
    [] f = "kids" ->
         [type |-> "HASMANY", model |-> "Child", primaryKey |-> FALSE, allowBlank |-> FALSE]

primaryKeyFieldname(model) ==
  CHOOSE f \in FieldSet(model) : FieldConf(model, f).primaryKey

\* fieldconf.bypassValidation as Model.init sets it
bypassValidation(model, f) ==
  FieldConf(model, f).primaryKey \/ f \in {"createdAt", "updatedAt"}

---------------------------------------------------------------------------
(* The type contracts (DataTypes).                                          *)

StaticTypes == {"STRING", "UUID", "EMAIL", "BOOLEAN", "INTEGER", "ARRAY"}
AssociationTypes == {"HASMANY", "HASONE", "BELONGSTO"}

\* value instanceof Model, Model being the class the association refers to
instanceOf(v, model) == v.k \in {"item", "coll", "bare"} /\ v.model = model

\* type.isBlank(value) ends in a TypeError: value.isEmpty() needs a collection
\* (null has no methods, an entity has no list to take the length of), and
\* value.length needs something that is neither null nor undefined
isBlankThrows(type, v) ==
  CASE type = "HASMANY" -> v.k # "coll"
    [] type = "ARRAY" -> v.k \in {"null", "undefined"}
    [] OTHER -> FALSE

\* type.isBlank(value), where it returns
isBlank(type, v) ==
  CASE type \in {"STRING", "UUID", "EMAIL"} -> v = Str(<<>>)
    [] type \in {"BOOLEAN", "INTEGER"} -> v = Null
    [] type = "ARRAY" -> (v.k = "arr" /\ v.list = <<>>) \/ v = Str(<<>>)
    [] type = "HASMANY" -> v.k = "coll" /\ v.list = <<>>
    [] type \in {"HASONE", "BELONGSTO"} -> v = Null

\* type.isValid(value)
typeIsValid(type, model, v) ==
  CASE type \in {"STRING", "UUID", "PHONE"} -> isString(v)
    [] type = "EMAIL" -> isString(v) /\ isEmail(v)
    [] type = "BOOLEAN" -> isBoolean(v)
    [] type = "INTEGER" -> isInteger(v) /\ v.n >= 0
    [] type = "FLOAT" -> isNumber(v) /\ v.n >= 0
    [] type \in {"DATE", "DATETIME"} -> isDate(v)
    [] type = "OBJECT" -> isObject(v)
    [] type = "ARRAY" -> isArray(v)
    [] type = "HASMANY" -> instanceOf(v, model) /\ v.k = "coll"
    [] type \in {"HASONE", "BELONGSTO"} ->
         instanceOf(v, model) /\ v.k = "item" /\ has(v.props, primaryKeyFieldname(model))

\* the association tag of a type: 'HasMany' / 'HasOne' / 'BelongsTo' in
\* part_001, 'HASMANY' / 'HASONE' / 'BELONGSTO' in lib/datatypes.js, undefined
\* for a static type
association(reg, type) ==
  CASE type \notin AssociationTypes -> "undefined"
    [] reg = "lib" -> type
    [] type = "HASMANY" -> "HasMany"
    [] type = "HASONE" -> "HasOne"
    [] type = "BELONGSTO" -> "BelongsTo"

Registries == {"part_001", "lib"}

---------------------------------------------------------------------------
(* Construction: _buildRawItem, the type's beforeBuild and the constructor. *)

\* what the caller passes as options: isNew, and count when the server sent one
Options(isNew) == [isNew |-> isNew, hasCount |-> FALSE, count |-> 0]

RECURSIVE BuildRawItem(_, _, _)

\* fieldconf.defaultValue(primaryKey); the primary key's factory is generateUUID,
\* whose output is `fresh`
defaultValue(model, f, primaryKey, fresh) ==
  LET conf == FieldConf(model, f) IN
  CASE conf.primaryKey -> fresh
    [] conf.type \in {"STRING", "UUID", "EMAIL"} -> Str(<<>>)
    [] conf.type = "HASMANY" -> Arr(<<>>)
    [] conf.type = "HASONE" ->
         BuildRawItem(conf.model, Obj([n \in {"primaryKey"} |-> primaryKey]), fresh)

BuildRawItem(model, item, fresh) ==
  LET pkname == primaryKeyFieldname(model)
      props == IF item.k = "obj" THEN item.props ELSE EmptyProps
      byName == Read(props, "primaryKey")
      byField == Read(props, pkname)
      primaryKey == IF Truthy(byName) THEN byName
                    ELSE IF Truthy(byField) THEN byField
                    ELSE fresh
  IN Obj([f \in FieldSet(model) |->
            IF f = pkname THEN primaryKey
            ELSE IF has(props, f) THEN props[f]
            ELSE defaultValue(model, f, primaryKey, fresh)])

RECURSIVE New(_, _, _, _)

\* type.beforeBuild(value, options)
beforeBuild(type, model, value, options, fresh) ==
  CASE type \in AssociationTypes ->
         IF ~Truthy(value) THEN Null
         ELSE IF instanceOf(value, model) THEN value
         ELSE New(model, value, options, fresh)
    [] type = "UUID" -> IF isString(value) THEN undashUuid(value) ELSE value
    [] type = "INTEGER" -> parseInt(value)
    [] type = "FLOAT" -> parseFloat(value)
    [] type \in {"DATE", "DATETIME"} ->
         IF isString(value) /\ value # Str(<<>>) THEN parseDate(value)
         ELSE IF isDate(value) THEN value
         ELSE Null
    [] OTHER -> value

\* Model._buildValidator(): the checked flag of every field of the schema
buildValidator(model) == [f \in FieldSet(model) |-> bypassValidation(model, f)]

\* new Model(data, options).  An entity is its own properties (props), its
\* validator's checked flags and isNew; a collection is its list and its count.
New(model, data, options, fresh) ==
  CASE data.k = "obj" ->
         LET raw == IF options.isNew THEN BuildRawItem(model, data, fresh) ELSE data IN
         [k |-> "item", model |-> model, isNew |-> options.isNew,
          checked |-> buildValidator(model),
          props |-> [f \in DOMAIN raw.props |->
                       IF f \in FieldSet(model)
                       THEN beforeBuild(FieldConf(model, f).type, FieldConf(model, f).model,
                                        raw.props[f], options, fresh)
                       ELSE raw.props[f]]]
    [] data.k = "arr" ->
         [k |-> "coll", model |-> model, props |-> EmptyProps,
          list |-> [i \in 1..Len(data.list) |->
                      IF instanceOf(data.list[i], model) THEN data.list[i]
                      ELSE New(model, data.list[i], options, fresh)],
          count |-> IF options.hasCount THEN options.count ELSE Len(data.list)]
    [] OTHER -> [k |-> "bare", model |-> model]

---------------------------------------------------------------------------
(* The validator closure of _buildValidator.                                *)

\* the closure ends in a TypeError when type.isBlank does
validatorThrows(conf, v) == isBlankThrows(conf.type, v)

\* the closure with allowBlank ignored: a blank value is let through
validatorIsValid_blankAlwaysAllowed(conf, custom, v) ==
  /\ \/ isBlank(conf.type, v)
     \/ (~isBlank(conf.type, v) /\ typeIsValid(conf.type, conf.model, v))
  /\ custom

\* validator[fieldname].isValid(value, data); custom is what the field's own
\* isValid(value, data) returns (always true unless the schema sets one)
validatorIsValid(conf, custom, v) ==
  /\ \/ (isBlank(conf.type, v) /\ conf.allowBlank)
     \/ (~isBlank(conf.type, v) /\ typeIsValid(conf.type, conf.model, v))
  /\ custom

---------------------------------------------------------------------------
(* Validation: _validQuietly.  A field list is an array of entries: a field *)
(* name, a pair [name, nested list], or anything else.                      *)

Name(n) == [e |-> "name", name |-> n]
Pair(n, l) == [e |-> "pair", name |-> n, list |-> l]
Other(n) == [e |-> "other", name |-> n]

\* the own properties of an entity: its data and $modelize
ownProperties(inst) == DOMAIN inst.props \cup {"$modelize"}

Started(inst) == [inst |-> inst, isValid |-> TRUE, errors |-> <<>>, threw |-> FALSE]

Failed(name, error) == [isValid |-> FALSE, errors |-> <<[name |-> name, error |-> error]>>]

\* the local checkValidity(result) of _validQuietly
checkValidity(acc, result) ==
  IF result.isValid THEN acc
  ELSE [acc EXCEPT !.isValid = FALSE, !.errors = @ \o result.errors]

Throw(acc) == [acc EXCEPT !.threw = TRUE]

\* validator[fieldname].checked = true reaching every field of the validator
SetChecked_everyField(inst, f) ==
  [inst EXCEPT !.checked = [g \in DOMAIN inst.checked |-> TRUE]]

SetChecked(inst, f) == [inst EXCEPT !.checked[f] = TRUE]

\* the branch `if (isString(fielditem))`
directField(acc, fieldname) ==
  LET inst == acc.inst IN
  IF fieldname \in ownProperties(inst)
  THEN IF fieldname \notin FieldSet(inst.model)
       THEN Throw(acc)   \* validator[fieldname] is undefined
       ELSE LET conf == FieldConf(inst.model, fieldname)
                value == Read(inst.props, fieldname)
                marked == [acc EXCEPT !.inst = SetChecked(inst, fieldname)]
            IN IF validatorThrows(conf, value) THEN Throw(marked)
               ELSE IF ~validatorIsValid(conf, TRUE, value)
                    THEN checkValidity(marked, Failed(fieldname, "NOT_VALID"))
                    ELSE marked
  ELSE checkValidity(acc, Failed(fieldname, "NOT_FOUND"))

RECURSIVE validQuietly(_, _, _)
RECURSIVE validItems(_, _, _, _, _)

\* merge the outcome of a nested call into the caller's: the nested instance
\* keeps what the call did to it, a throw propagates
Nested(acc, fieldname, result) ==
  LET kept == [acc EXCEPT !.inst.props[fieldname] = result.inst] IN
  IF result.threw THEN Throw(kept) ELSE checkValidity(kept, result)

\* the branch `else if (isArray(fielditem))`
associationField(reg, acc, fieldname, fieldlist) ==
  LET inst == acc.inst IN
  IF fieldname \in ownProperties(inst)
  THEN IF fieldname \notin FieldSet(inst.model)
       THEN Throw(acc)   \* validator[fieldname] is undefined
       ELSE LET conf == FieldConf(inst.model, fieldname)
                marked == [acc EXCEPT !.inst = SetChecked(inst, fieldname)]
                value == Read(inst.props, fieldname)
                tag == association(reg, conf.type)
            IN CASE tag \in {"BelongsTo", "HasOne"} ->
                      IF ~Truthy(fieldlist) THEN marked
                      ELSE IF value.k # "item" THEN Throw(marked)   \* null._validQuietly
                      ELSE Nested(marked, fieldname, validQuietly(reg, value, fieldlist))
                 [] tag = "HasMany" ->
                      LET own == validQuietly(reg, marked.inst, Arr(<<Name(fieldname)>>))
                          after == IF own.threw THEN Throw([marked EXCEPT !.inst = own.inst])
                                   ELSE checkValidity([marked EXCEPT !.inst = own.inst], own)
                      IN IF after.threw \/ ~Truthy(fieldlist) THEN after
                         ELSE validItems(reg, after, fieldname, fieldlist, 1)
                 [] OTHER -> marked
  ELSE checkValidity(acc, Failed(fieldname, "NOT_FOUND"))

\* `for (const item of this[fieldname].items())`, from item i on
validItems(reg, acc, fieldname, fieldlist, i) ==
  LET items == acc.inst.props[fieldname].list IN
  IF acc.threw \/ i > Len(items) THEN acc
  ELSE LET result == validQuietly(reg, items[i], fieldlist)
           kept == [acc EXCEPT !.inst.props[fieldname].list[i] = result.inst]
           next == IF result.threw THEN Throw(kept) ELSE checkValidity(kept, result)
       IN validItems(reg, next, fieldname, fieldlist, i + 1)

\* one turn of `for (const fielditem of fieldlist)`
validEntry(reg, acc, fielditem) ==
  CASE fielditem.e = "name" -> directField(acc, fielditem.name)
    [] fielditem.e = "pair" -> associationField(reg, acc, fielditem.name, fielditem.list)
    [] OTHER -> checkValidity(acc, Failed(fielditem.name, "SYNTAX_ERROR"))

RECURSIVE validFrom(_, _, _, _)
validFrom(reg, acc, list, i) ==
  IF acc.threw \/ i > Len(list) THEN acc
  ELSE validFrom(reg, validEntry(reg, acc, list[i]), list, i + 1)

\* inst._validQuietly(fieldlist): the instance afterwards, and either the
\* result {isValid, errors} or threw
validQuietly(reg, inst, fieldlist) ==
  IF ~isArray(fieldlist) THEN Throw(Started(inst))
  ELSE validFrom(reg, Started(inst), fieldlist.list, 1)

---------------------------------------------------------------------------
(* Serialization: _beforeSave, _beforeSaveItem and the type's beforeSave.   *)

RECURSIVE beforeSaveItem(_)
RECURSIVE beforeSaveThrows(_)

\* value._beforeSave() of an instance
beforeSaveInstance(v) ==
  IF v.k = "coll" THEN Arr([i \in 1..Len(v.list) |-> beforeSaveItem(v.list[i])])
  ELSE beforeSaveItem(v)

\* type.beforeSave(value)
beforeSave(type, model, v) ==
  CASE type = "HASMANY" -> beforeSaveInstance(v)
    [] type \in {"HASONE", "BELONGSTO"} ->
         IF instanceOf(v, model) THEN beforeSaveInstance(v) ELSE Null
    [] type = "UUID" -> IF isString(v) THEN dashUuid(v) ELSE v
    [] type = "PHONE" -> IF isString(v) THEN formatPhone(v) ELSE v
    [] type = "DATE" -> IF isDate(v) THEN formatDateOnly(v, LocalOffset) ELSE Null
    [] type = "DATETIME" -> IF isDate(v) THEN toISOString(v) ELSE Null
    [] OTHER -> v

\* the fields _beforeSaveItem writes into newItem
savedFields(inst) ==
  {f \in FieldSet(inst.model) :
     /\ inst.checked[f]
     /\ validatorIsValid(FieldConf(inst.model, f), TRUE, Read(inst.props, f))}

\* inst._beforeSaveItem(), where it returns
beforeSaveItem(inst) ==
  Obj([f \in savedFields(inst) |->
         beforeSave(FieldConf(inst.model, f).type, FieldConf(inst.model, f).model,
                    Read(inst.props, f))])

\* inst._beforeSaveItem() ends in a TypeError: a checked field's closure throws,
\* or the serialization of a nested instance does
beforeSaveThrows(inst) ==
  \E f \in FieldSet(inst.model) :
    /\ inst.checked[f]
    /\ LET conf == FieldConf(inst.model, f)
           v == Read(inst.props, f)
       IN \/ validatorThrows(conf, v)
          \/ /\ validatorIsValid(conf, TRUE, v)
             /\ conf.type \in AssociationTypes
             /\ \/ v.k = "item" /\ beforeSaveThrows(v)
                \/ v.k = "coll" /\ \E i \in 1..Len(v.list) : beforeSaveThrows(v.list[i])

---------------------------------------------------------------------------
(* Mutation in place: _mutateData.                                          *)

\* the own enumerable keys of a fresh entity after $modelize, in the order the
\* constructor assigned them (the order of the keys of the payload)
KeyOrder == <<"id", "email", "label", "child", "kids", "extra">>

RECURSIVE mutateData(_, _)
RECURSIVE mutateFrom(_, _, _)

\* this[key] = value, which adds the property when the instance lacks it
SetProp(inst, key, value) ==
  [inst EXCEPT !.props = [n \in DOMAIN inst.props \cup {key} |->
                            IF n = key THEN value ELSE inst.props[n]]]

\* the turn writing a basic field only when the instance lacks it
mutateKey_keepsExisting(acc, key, value) ==
  IF value.k \in {"item", "coll", "bare"}
  THEN LET current == Read(acc.inst.props, key) IN
       IF current.k \notin {"item", "coll"}
       THEN [acc EXCEPT !.threw = TRUE]
       ELSE LET done == mutateData(current, value) IN
            [inst |-> SetProp(acc.inst, key, done.inst), threw |-> done.threw]
  ELSE IF key \in DOMAIN acc.inst.props THEN acc
       ELSE [acc EXCEPT !.inst = SetProp(acc.inst, key, value)]

\* one turn of `for (const key in newData)` for a data key
mutateKey(acc, key, value) ==
  IF value.k \in {"item", "coll", "bare"}
  THEN LET current == Read(acc.inst.props, key) IN
       IF current.k \notin {"item", "coll"}
       THEN [acc EXCEPT !.threw = TRUE]   \* this[key] is null or undefined
       ELSE LET done == mutateData(current, value) IN
            [inst |-> SetProp(acc.inst, key, done.inst), threw |-> done.threw]
  ELSE [acc EXCEPT !.inst = SetProp(acc.inst, key, value)]

mutateFrom(acc, newData, i) ==
  IF acc.threw \/ i > Len(KeyOrder) THEN acc
  ELSE mutateFrom(IF KeyOrder[i] \in DOMAIN newData.props
                  THEN mutateKey(acc, KeyOrder[i], newData.props[KeyOrder[i]])
                  ELSE acc,
                  newData, i + 1)

\* the `$modelize` branch taking the validator of newData along with isNew
mutateData_takesValidator(this, newData) ==
  IF newData.k = "coll"
  THEN [inst |-> [this EXCEPT !.count = newData.count, !.list = newData.list],
        threw |-> FALSE]
  ELSE mutateFrom([inst |-> [this EXCEPT !.isNew = newData.isNew,
                                         !.checked = newData.checked],
                   threw |-> FALSE],
                  newData, 1)

\* this._mutateData(newData) on an instance that recorded no fetch of its own:
\* the instance afterwards, and whether the call ended in a TypeError
mutateData(this, newData) ==
  IF newData.k = "coll"
  THEN [inst |-> [this EXCEPT !.count = newData.count, !.list = newData.list],
        threw |-> FALSE]
  ELSE mutateFrom([inst |-> [this EXCEPT !.isNew = newData.isNew], threw |-> FALSE],
                  newData, 1)

---------------------------------------------------------------------------
(* The lifecycle flags.                                                     *)

IdleStates ==
  [fetchInProgress |-> FALSE, fetchSuccessOnce |-> FALSE, fetchSuccess |-> FALSE,
   fetchFailure |-> FALSE, saveInProgress |-> FALSE, saveSuccess |-> FALSE,
   saveFailure |-> FALSE]

\* the invocation resetting every flag of the instance, not those of its class
setInProgress_resetsAll(st, method) ==
  IF method = "GET"
  THEN [IdleStates EXCEPT !.fetchInProgress = TRUE]
  ELSE [IdleStates EXCEPT !.saveInProgress = TRUE]

\* "Set states to inprogress"
setInProgress(st, method) ==
  IF method = "GET"
  THEN [st EXCEPT !.fetchInProgress = TRUE, !.fetchFailure = FALSE, !.fetchSuccess = FALSE]
  ELSE [st EXCEPT !.saveInProgress = TRUE, !.saveFailure = FALSE, !.saveSuccess = FALSE]

\* the failure handler leaving InProgress as it was
setFailure_keepsInProgress(st, method) ==
  IF method = "GET"
  THEN [st EXCEPT !.fetchFailure = TRUE]
  ELSE [st EXCEPT !.saveFailure = TRUE]

\* "Set states to failure"
setFailure(st, method) ==
  IF method = "GET"
  THEN [st EXCEPT !.fetchInProgress = FALSE, !.fetchFailure = TRUE]
  ELSE [st EXCEPT !.saveInProgress = FALSE, !.saveFailure = TRUE]

\* the success flags set with InProgress left as it was
setSuccess_keepsInProgress(st, method) ==
  IF method = "GET"
  THEN [st EXCEPT !.fetchSuccess = TRUE, !.fetchSuccessOnce = TRUE]
  ELSE [st EXCEPT !.saveSuccess = TRUE]

\* "Set states to success"
setSuccess(st, method) ==
  IF method = "GET"
  THEN [st EXCEPT !.fetchInProgress = FALSE, !.fetchSuccess = TRUE,
                  !.fetchSuccessOnce = TRUE]
  ELSE [st EXCEPT !.saveInProgress = FALSE, !.saveSuccess = TRUE]

---------------------------------------------------------------------------
(* Bounds and inputs.                                                       *)

MaxOps == 2        \* fetch() calls issued on the entity
MaxTime == 40      \* the clock stops here

\* setTimeout(..., 20000): the deadline of a request, in seconds
AbortDelay == 20

Blank == Str(<<>>)
GoodEmail == Str(<<"a", "@", "b", ".", "a">>)
BadEmail == Str(<<"a">>)
Label == Str(<<"b">>)
IdP == Str(<<"p">>)
IdC == Str(<<"c">>)
IdD == Str(<<"d">>)
FreshIds == {Str(<<"g">>)}

Props1(n1, v1) == [n \in {n1} |-> v1]
Props2(n1, v1, n2, v2) == [n \in {n1, n2} |-> IF n = n1 THEN v1 ELSE v2]
Props3(n1, v1, n2, v2, n3, v3) ==
  [n \in {n1, n2, n3} |-> IF n = n1 THEN v1 ELSE IF n = n2 THEN v2 ELSE v3]

ChildRaw(id, label) == Obj(Props2("id", id, "label", label))

\* what the caller builds the entity from
Partials ==
  { Obj(EmptyProps),
    Obj(Props2("email", GoodEmail,
               "kids", Arr(<<ChildRaw(IdC, Blank), ChildRaw(IdD, Label)>>))) }

\* the bodies the server answers with
Payloads ==
  { Obj(Props2("id", IdP, "email", GoodEmail)),
    Obj(Props3("id", IdP, "email", BadEmail, "child", ChildRaw(IdC, Label))),
    Obj(Props3("email", Blank, "child", Null, "kids", Null)),
    Obj(Props3("child", Obj(Props1("id", IdD)),
               "kids", Arr(<<ChildRaw(IdD, Blank)>>), "extra", Label)) }

\* the lists the caller passes to valid()
FieldLists ==
  { Arr(<<Name("email")>>),
    Arr(<<Name("nope"), Name("email")>>),
    Arr(<<Other("42"), Name("kids")>>),
    Arr(<<Name("extra"), Name("email")>>),
    Arr(<<Pair("child", Arr(<<Name("label")>>)), Name("email")>>),
    Arr(<<Pair("child", Label), Name("email")>>),
    Arr(<<Pair("kids", Arr(<<Name("label")>>))>>),
    Arr(<<Pair("kids", Undefined), Pair("nope", Undefined)>>) }

\* the names a list names, a nested name written parent.name
RECURSIVE NamesOf(_, _)
NamesOf(fieldlist, prefix) ==
  IF ~isArray(fieldlist) THEN {}
  ELSE UNION { LET item == fieldlist.list[i] IN
               CASE item.e = "name" -> {prefix \o item.name}
                 [] item.e = "pair" ->
                      {prefix \o item.name} \cup NamesOf(item.list, prefix \o item.name \o ".")
                 [] OTHER -> {}
             : i \in 1..Len(fieldlist.list) }

\* the fields of the entity and of the entities it is associated with
FieldPaths ==
  FieldSet("User") \cup
  UNION { {f \o "." \o g : g \in FieldSet(FieldConf("User", f).model)} :
          f \in {h \in FieldSet("User") : FieldConf("User", h).type \in AssociationTypes} }

---------------------------------------------------------------------------
(* The state machine.                                                       *)

\* Model.endpoint is set by Model.init({endpoint}); fetch() throws without it
endpoint == TRUE

NoCall == [k |-> "none"]

\* the entity the caller built with new Model(partial); nothing has run yet
Init ==
  /\ registry = "part_001"
  /\ \E partial \in Partials, fresh \in FreshIds :
       self = New("User", partial, Options(TRUE), fresh)
  /\ states = IdleStates
  /\ ops = <<>>
  /\ now = 0
  /\ events = 0
  /\ uncaught = 0
  /\ lastValid = NoCall
  /\ lastSave = NoCall
  /\ named = {}
  /\ fetchOptions = 0
  /\ lastEdit = NoCall
  /\ edits = 0
  /\ probe = NoCall

IsSave(method) == method \in {"POST", "PUT", "PATCH"}

\* the value a call returned stays with the caller until its next call
Forget == lastValid' = NoCall /\ lastSave' = NoCall /\ lastEdit' = NoCall

\* fetch(options) up to its first suspension: the endpoint test, the flags,
\* _buildRequestUrl and _buildRequestInit, whose body is this.toJSON()
fetch(method, pk) ==
  /\ Len(ops) < MaxOps
  /\ endpoint
  /\ states' = setInProgress(states, method)
  /\ ops' = Append(ops,
       [method |-> method, pk |-> pk,
        pc |-> IF IsSave(method) /\ beforeSaveThrows(self) THEN "rejected" ELSE "built",
        timer |-> "none", due |-> 0, resp |-> Undefined, order |-> 0])
  /\ Forget
  /\ UNCHANGED <<registry, self, now, events, uncaught, named, probe, fetchOptions, edits>>

\* get({pk})
Get == \E pk \in {IdP} : fetch("GET", pk)

\* post()
Post == fetch("POST", Undefined)

\* put(): pk defaults to the value of the primary key field
Put == fetch("PUT", Read(self.props, primaryKeyFieldname(self.model)))

\* patch()
Patch == fetch("PATCH", Read(self.props, primaryKeyFieldname(self.model)))

\* save() as post() whatever isNew is
Save_alwaysPost == fetch("POST", Undefined)

\* save(): post() for a new entity, put() otherwise
Save ==
  IF self.isNew
  THEN fetch("POST", Undefined)
  ELSE fetch("PUT", Read(self.props, primaryKeyFieldname(self.model)))

\* the continuation after `await _buildRequestInit`: new Request, setTimeout,
\* and the call of the transport
Send(i) ==
  /\ ops[i].pc = "built"
  /\ ops' = [ops EXCEPT ![i].pc = "sent", ![i].timer = "armed",
                        ![i].due = now + AbortDelay]
  /\ Forget
  /\ UNCHANGED <<registry, self, states, now, events, uncaught, named, probe, fetchOptions, edits>>

\* the catch block forgetting that a fetch once succeeded
catch_clearsOnce(i, timer) ==
  /\ events' = events + 1
  /\ states' = [setFailure(states, ops[i].method) EXCEPT !.fetchSuccessOnce = FALSE]
  /\ ops' = [ops EXCEPT ![i].pc = "resolved", ![i].timer = timer]

\* the catch block: the event, the failure flags, resolve with this
catch(i, timer) ==
  /\ events' = events + 1
  /\ states' = setFailure(states, ops[i].method)
  /\ ops' = [ops EXCEPT ![i].pc = "resolved", ![i].timer = timer]

\* the transport answers: clearTimeout, then `if (!fetchResponse.ok) throw`;
\* an ok response is saved with its options in $modelize.fetch
Respond(i, ok) ==
  /\ ops[i].pc = "sent"
  /\ IF ok
     THEN /\ ops' = [ops EXCEPT ![i].pc = "json", ![i].timer = "cleared"]
          /\ fetchOptions' = i
          /\ UNCHANGED <<states, events>>
     ELSE catch(i, "cleared") /\ UNCHANGED fetchOptions
  /\ Forget
  /\ UNCHANGED <<registry, self, now, uncaught, named, probe, edits>>

\* the transport call rejects (network error): clearTimeout is skipped
NetworkError(i) ==
  /\ ops[i].pc = "sent"
  /\ catch(i, "armed")
  /\ Forget
  /\ UNCHANGED <<registry, self, now, uncaught, named, probe, fetchOptions, edits>>

\* the timer callback: abortController.abort(), then `throw new Error()` inside
\* the callback; the abort rejects the transport call when it is still in flight
Timeout(i) ==
  /\ ops[i].timer = "armed"
  /\ now >= ops[i].due
  /\ uncaught' = uncaught + 1
  /\ IF ops[i].pc = "sent"
     THEN catch(i, "fired")
     ELSE /\ ops' = [ops EXCEPT ![i].timer = "fired"]
          /\ UNCHANGED <<states, events>>
  /\ Forget
  /\ UNCHANGED <<registry, self, now, named, probe, fetchOptions, edits>>

\* the deadlines of the pending timers
Deadlines == {ops[i].due : i \in {j \in 1..Len(ops) : ops[j].timer = "armed"}}

\* time passes while a timer is pending, up to the next deadline: a timer that
\* is due fires before the clock moves on
Tick ==
  /\ Deadlines # {}
  /\ \A d \in Deadlines : now < d /\ d <= MaxTime
  /\ now' = CHOOSE d \in Deadlines : \A e \in Deadlines : d <= e
  /\ Forget
  /\ UNCHANGED <<registry, self, states, ops, events, uncaught, named, probe, fetchOptions, edits>>

Completed == {i \in 1..Len(ops) : ops[i].order > 0}

\* `await fetchResponse.json()` gives serverData: new this.constructor(data,
\* {isNew: false}), _mutateData, the success flags, resolve with this
Parse(i, serverData) ==
  /\ ops[i].pc = "json"
  /\ \E fresh \in FreshIds :
       LET formattedData == New(self.model, serverData, Options(FALSE), fresh)
           done == mutateData(self, formattedData)
       IN /\ self' = done.inst
          /\ IF done.threw
             THEN /\ ops' = [ops EXCEPT ![i].pc = "rejected", ![i].resp = serverData]
                  /\ UNCHANGED states
             ELSE /\ ops' = [ops EXCEPT ![i].pc = "resolved", ![i].resp = serverData,
                                        ![i].order = Cardinality(Completed) + 1]
                  /\ states' = setSuccess(states, ops[i].method)
  /\ Forget
  /\ UNCHANGED <<registry, now, events, uncaught, named, probe, fetchOptions, edits>>

\* `await fetchResponse.json()` rejects: the body is not JSON
ParseError(i) ==
  /\ ops[i].pc = "json"
  /\ ops' = [ops EXCEPT ![i].pc = "rejected"]
  /\ Forget
  /\ UNCHANGED <<registry, self, states, now, events, uncaught, named, probe, fetchOptions, edits>>

\* _validQuietly(fieldlist), as valid(fieldlist) calls it
Valid(fieldlist) ==
  /\ LET done == validQuietly(registry, self, fieldlist) IN
       /\ self' = done.inst
       /\ lastValid' = [k |-> "call", list |-> fieldlist, threw |-> done.threw,
                        isValid |-> done.isValid, errors |-> done.errors]
  /\ named' = named \cup (NamesOf(fieldlist, "") \cap FieldPaths)
  /\ lastSave' = NoCall
  /\ UNCHANGED <<registry, states, ops, now, events, uncaught, probe,
                 fetchOptions, lastEdit, edits>>

\* _beforeSaveItem(), as the caller's toJSON() calls it
Serialize ==
  /\ lastSave' = IF beforeSaveThrows(self)
                 THEN [k |-> "call", threw |-> TRUE, payload |-> Null]
                 ELSE [k |-> "call", threw |-> FALSE, payload |-> beforeSaveItem(self)]
  /\ lastValid' = NoCall
  /\ UNCHANGED <<registry, self, states, ops, now, events, uncaught, named, probe,
                 fetchOptions, lastEdit, edits>>

Next ==
  \/ Get \/ Post \/ Put \/ Patch \/ Save
  \/ \E i \in 1..Len(ops) :
       \/ Send(i)
       \/ \E ok \in BOOLEAN : Respond(i, ok)
       \/ NetworkError(i)
       \/ Timeout(i)
       \/ \E serverData \in Payloads : Parse(i, serverData)
       \/ ParseError(i)
  \/ Tick

\* the fetch lifecycle of one entity
Spec == Init /\ [][Next]_vars

\* an entity as the constructor leaves it, built by the caller (isNew) or from
\* a body of the server (not isNew), under either revision of the contracts
InitValid ==
  /\ registry \in Registries
  /\ \E data \in Partials \cup Payloads, isNew \in BOOLEAN, fresh \in FreshIds :
       self = New("User", data, Options(isNew), fresh)
  /\ states = IdleStates
  /\ ops = <<>>
  /\ now = 0
  /\ events = 0
  /\ uncaught = 0
  /\ lastValid = NoCall
  /\ lastSave = NoCall
  /\ named = {}
  /\ fetchOptions = 0
  /\ lastEdit = NoCall
  /\ edits = 0
  /\ probe = NoCall

NextValid ==
  \/ \E fieldlist \in FieldLists : Valid(fieldlist)
  \/ Serialize

\* validation and serialization of one entity
SpecValid == InitValid /\ [][NextValid]_vars

---------------------------------------------------------------------------
(* The validator closure alone, on every type and a sample of every kind    *)
(* of value.                                                                *)

ProbeValues ==
  { Undefined, Null, Blank, BadEmail, GoodEmail, Bool(TRUE), Bool(FALSE),
    Num(0), Num(3), Num(-1), Arr(<<>>), Arr(<<Null>>), Obj(EmptyProps),
    New("Child", ChildRaw(IdC, Label), Options(FALSE), IdD),
    New("Child", Obj(Props1("label", Label)), Options(FALSE), IdD),
    New("User", Obj(EmptyProps), Options(TRUE), IdP),
    New("Child", Arr(<<>>), Options(FALSE), IdD),
    New("Child", Arr(<<ChildRaw(IdC, Label)>>), Options(FALSE), IdD) }

ProbeConfs ==
  [type : StaticTypes, model : {""}, allowBlank : BOOLEAN] \cup
  [type : AssociationTypes, model : {"Child"}, allowBlank : BOOLEAN]

InitProbe ==
  /\ registry = "part_001"
  /\ self = New("User", Obj(EmptyProps), Options(TRUE), IdP)
  /\ states = IdleStates
  /\ ops = <<>>
  /\ now = 0
  /\ events = 0
  /\ uncaught = 0
  /\ lastValid = NoCall
  /\ lastSave = NoCall
  /\ named = {}
  /\ fetchOptions = 0
  /\ lastEdit = NoCall
  /\ edits = 0
  /\ \E conf \in ProbeConfs, custom \in BOOLEAN, value \in ProbeValues :
       probe = [k |-> "input", conf |-> conf, custom |-> custom, value |-> value,
                out |-> "none"]

\* validator[fieldname].isValid(value, data) is called
Evaluate ==
  /\ probe.k = "input"
  /\ probe' = [probe EXCEPT
       !.k = "result",
       !.out = IF validatorThrows(probe.conf, probe.value) THEN "throw"
               ELSE IF validatorIsValid(probe.conf, probe.custom, probe.value)
                    THEN "true" ELSE "false"]
  /\ UNCHANGED <<registry, self, states, ops, now, events, uncaught, lastValid,
                 lastSave, named, fetchOptions, lastEdit, edits>>

NextProbe == Evaluate

SpecProbe == InitProbe /\ [][NextProbe]_vars

---------------------------------------------------------------------------
(* Properties.                                                              *)

\* the acceptability rule of the type contracts, as the specification words it
Acceptable(conf, custom, v) ==
  /\ \/ (isBlank(conf.type, v) /\ conf.allowBlank)
     \/ (~isBlank(conf.type, v) /\ typeIsValid(conf.type, conf.model, v))
  /\ custom

\* C10: the validator closure of a field returns true exactly when the value is
\* (blank and allowBlank, or not blank and valid for the type) and the custom
\* predicate returns true; so with the default custom predicate a blank value
\* fails when allowBlank is false and passes when allowBlank is true.  (Where
\* the type's isBlank itself ends in a TypeError the closure returns nothing.)
C10_ClosureIsAcceptability ==
  probe.k = "result" =>
    /\ (probe.out = "throw") = isBlankThrows(probe.conf.type, probe.value)
    /\ probe.out # "throw" =>
         /\ (probe.out = "true") = Acceptable(probe.conf, probe.custom, probe.value)
         /\ (isBlank(probe.conf.type, probe.value) /\ ~probe.conf.allowBlank)
              => probe.out = "false"
         /\ (isBlank(probe.conf.type, probe.value) /\ probe.conf.allowBlank /\ probe.custom)
              => probe.out = "true"

\* C10 witness: a blank value was refused by a field with allowBlank = false
C10_Witness ==
  /\ probe.k = "result"
  /\ probe.value = Blank /\ probe.conf.type = "EMAIL" /\ ~probe.conf.allowBlank
  /\ probe.custom /\ probe.out = "false"

\* the fields of an entity that are checked and currently acceptable
CheckedAndAcceptable(inst) ==
  {f \in FieldSet(inst.model) :
     inst.checked[f] /\ Acceptable(FieldConf(inst.model, f), TRUE, Read(inst.props, f))}

\* C5: the wire payload of an entity has a key for a field if and only if the
\* field is checked and its current value is acceptable; every other field is
\* left out, and leaving it out is no error: serialization returns a payload.
C5_PayloadIsCheckedAndAcceptable ==
  lastSave.k = "call" =>
    /\ ~lastSave.threw
    /\ DOMAIN lastSave.payload.props = CheckedAndAcceptable(self)

\* C5, the part the code keeps: whenever serialization returns, the keys of the
\* payload are exactly the checked and acceptable fields
C5_KeysWhenReturned ==
  (lastSave.k = "call" /\ ~lastSave.threw) =>
    DOMAIN lastSave.payload.props = CheckedAndAcceptable(self)

\* the entries of a list, as a set of positions
Entries(fieldlist) == 1..Len(fieldlist.list)

HasError(name, error) ==
  \E j \in 1..Len(lastValid.errors) :
    lastValid.errors[j] = [name |-> name, error |-> error]

\* C7: whatever the entries of the list, valid() returns a result and never
\* throws, and a name that is not a field of the entity yields NOT_FOUND.
C7_ValidNeverThrows ==
  lastValid.k = "call" =>
    /\ ~lastValid.threw
    /\ \A i \in Entries(lastValid.list) :
         LET item == lastValid.list.list[i] IN
         (item.e \in {"name", "pair"} /\ item.name \notin FieldSet(self.model))
           => HasError(item.name, "NOT_FOUND")

\* C8: valid() processes every entry: it returns, isValid is false exactly when
\* an error was recorded, an entry that is no name and no pair gives
\* SYNTAX_ERROR, and every entry naming a field the entity carries leaves that
\* field checked, whatever the entries before it.
C8_EveryEntryProcessed ==
  lastValid.k = "call" =>
    /\ ~lastValid.threw
    /\ lastValid.isValid = (lastValid.errors = <<>>)
    /\ \A i \in Entries(lastValid.list) :
         LET item == lastValid.list.list[i] IN
         /\ item.e = "other" => HasError(item.name, "SYNTAX_ERROR")
         /\ (item.e \in {"name", "pair"} /\ item.name \in FieldSet(self.model)
               /\ item.name \in DOMAIN self.props)
              => self.checked[item.name]

\* C9: for a pair naming a HasMany field with a nested list, every item of the
\* collection has the fields of the nested list checked, and every item whose
\* nested field is not acceptable has its NOT_VALID error in the parent's list.
C9_HasManyItemsValidated ==
  lastValid.k = "call" =>
    \A i \in Entries(lastValid.list) :
      LET item == lastValid.list.list[i] IN
      (/\ item.e = "pair"
       /\ item.name \in FieldSet(self.model) \cap DOMAIN self.props
       /\ FieldConf(self.model, item.name).type = "HASMANY"
       /\ self.props[item.name].k = "coll"
       /\ isArray(item.list))
      => /\ ~lastValid.threw
         /\ \A n \in 1..Len(self.props[item.name].list), j \in Entries(item.list) :
              LET it == self.props[item.name].list[n]
                  g == item.list.list[j]
              IN (g.e = "name" /\ g.name \in FieldSet(it.model) \cap DOMAIN it.props)
                 => /\ it.checked[g.name]
                    /\ ~Acceptable(FieldConf(it.model, g.name), TRUE, it.props[g.name])
                         => HasError(g.name, "NOT_VALID")

\* the entities an entity is associated with, each with the field that holds it
Associated(inst) ==
  UNION { LET v == inst.props[f] IN
          IF v.k = "item" THEN {<<f, v>>}
          ELSE IF v.k = "coll" THEN {<<f, v.list[n]>> : n \in 1..Len(v.list)}
          ELSE {}
        : f \in {h \in FieldSet(inst.model) \cap DOMAIN inst.props :
                   FieldConf(inst.model, h).type \in AssociationTypes} }

\* the fields whose checked flag is true, a nested field written parent.name
CheckedPaths(inst) ==
  {f \in FieldSet(inst.model) : inst.checked[f]} \cup
  UNION { {p[1] \o "." \o g : g \in {h \in FieldSet(p[2].model) : p[2].checked[h]}}
          : p \in Associated(inst) }

\* the keys of a payload, a key of a nested payload written parent.name
PayloadPaths(payload) ==
  DOMAIN payload.props \cup
  UNION { LET v == payload.props[f] IN
          IF v.k = "obj" THEN {f \o "." \o g : g \in DOMAIN v.props}
          ELSE IF v.k = "arr"
               THEN UNION { {f \o "." \o g : g \in DOMAIN v.list[n].props}
                            : n \in 1..Len(v.list) }
               ELSE {}
        : f \in DOMAIN payload.props }

\* the fields checked from construction on: bypassValidation
BypassPaths ==
  {f \in FieldSet("User") : bypassValidation("User", f)} \cup
  UNION { {f \o "." \o g : g \in {h \in FieldSet(FieldConf("User", f).model) :
                                    bypassValidation(FieldConf("User", f).model, h)}}
          : f \in {h \in FieldSet("User") : FieldConf("User", h).type \in AssociationTypes} }

---------------------------------------------------------------------------
(* Properties of the fetch lifecycle.                                       *)

\* the getters of the flags, by the class of the operation
InProgress(st, method) ==
  IF method = "GET" THEN st.fetchInProgress ELSE st.saveInProgress

Success(st, method) ==
  IF method = "GET" THEN st.fetchSuccess ELSE st.saveSuccess

Failure(st, method) ==
  IF method = "GET" THEN st.fetchFailure ELSE st.saveFailure

\* operation i leaves the transport call by the failure path in this step
FailsNow(i) == ops[i].pc = "sent" /\ ops'[i].pc \notin {"sent", "json"}

\* C1: when the transport call of an operation rejects or answers with a
\* non-success status, the pending call resolves with the same instance, and
\* at that point Failure is true, InProgress false and Success false for the
\* class of the operation, and one failure event has been emitted.
C1_FailureResolvesClean ==
  [][\A i \in 1..Len(ops) :
       FailsNow(i) =>
         /\ ops'[i].pc = "resolved"
         /\ self' = self
         /\ events' = events + 1
         /\ Failure(states', ops[i].method)
         /\ ~InProgress(states', ops[i].method)
         /\ ~Success(states', ops[i].method)]_vars

\* C2: invoking an operation sets InProgress and clears Success and Failure
\* for the class of the operation, and leaves the three flags of the other
\* class and the fetch SuccessOnce flag as they were.
C2_InvokeFlags ==
  [][Len(ops') = Len(ops) + 1 =>
       LET m == ops'[Len(ops')].method
           other == IF m = "GET" THEN "POST" ELSE "GET"
       IN /\ InProgress(states', m) /\ ~Success(states', m) /\ ~Failure(states', m)
          /\ InProgress(states', other) = InProgress(states, other)
          /\ Success(states', other) = Success(states, other)
          /\ Failure(states', other) = Failure(states, other)
          /\ states'.fetchSuccessOnce = states.fetchSuccessOnce]_vars

\* C2 witness: a save was invoked after a fetch succeeded; the flags of the
\* fetch class are as the fetch left them
C2_Witness ==
  /\ Len(ops) = 2
  /\ ops[1].method = "GET" /\ ops[1].order = 1
  /\ ops[2].method = "PUT" /\ ops[2].pc = "built"
  /\ states.saveInProgress /\ ~states.saveSuccess /\ ~states.saveFailure
  /\ states.fetchSuccess /\ states.fetchSuccessOnce /\ ~states.fetchInProgress

\* C3: when the deadline (AbortDelay after the transport call began) passes
\* with the call still in flight, the call is cancelled and the operation ends
\* by the failure path: Failure true and InProgress false for its class, the
\* pending call resolved with the instance and the event emitted; and a call
\* in flight is never left past its deadline.
C3_DeadlineIsFailure ==
  [][\A i \in 1..Len(ops) :
       /\ (ops[i].pc = "sent" /\ ops[i].timer = "armed" /\ ops'[i].timer = "fired") =>
            /\ now >= ops[i].due
            /\ ops'[i].pc = "resolved"
            /\ self' = self
            /\ events' = events + 1
            /\ Failure(states', ops[i].method)
            /\ ~InProgress(states', ops[i].method)
       /\ ops[i].pc = "sent" => now' <= ops[i].due]_vars

\* C3 witness: an operation whose transport call never settled was resolved by
\* its deadline, AbortDelay after the call began
C3_Witness ==
  /\ Len(ops) = 1
  /\ ops[1].pc = "resolved" /\ ops[1].timer = "fired"
  /\ now = AbortDelay /\ ops[1].due = AbortDelay
  /\ states.fetchFailure /\ ~states.fetchInProgress

\* the fresh instance the completion of operation i built from its response
Fresh(i) ==
  New(self.model, ops[i].resp, Options(FALSE), CHOOSE fresh \in FreshIds : TRUE)

RECURSIVE HoldsLast(_, _, _)

\* every field carried by both fresh instances holds in cur the value of last:
\* a basic field its value, a collection its items and count, an associated
\* entity the same of its own fields
HoldsLast(cur, last, early) ==
  \A key \in DOMAIN last.props \cap DOMAIN early.props :
    LET v == last.props[key] IN
    /\ key \in DOMAIN cur.props
    /\ CASE v.k = "item" ->
              /\ cur.props[key].k = "item"
              /\ HoldsLast(cur.props[key], v,
                           IF early.props[key].k = "item" THEN early.props[key] ELSE v)
         [] v.k = "coll" ->
              /\ cur.props[key].k = "coll"
              /\ cur.props[key].list = v.list
              /\ cur.props[key].count = v.count
         [] OTHER -> cur.props[key] = v

\* the operations whose completion mutated the entity, wholly or in part
Mutators == {i \in 1..Len(ops) : ops[i].resp # Undefined}

\* C4: when operations issued on one entity have all completed successfully,
\* every field carried by the response whose completion ran last and by an
\* earlier one holds the value of the last, in whatever order they were issued.
C4_LastWriteWins ==
  \A i \in Completed, j \in Completed :
    (/\ Mutators = Completed
     /\ ops[i].order < ops[j].order
     /\ ops[j].order = Cardinality(Completed))
    => HoldsLast(self, Fresh(j), Fresh(i))

\* C4 witness: two operations overlapped, the one issued second completed
\* first, and their responses carry different values for the same field
C4_Witness ==
  /\ Len(ops) = 2
  /\ ops[2].order = 1 /\ ops[1].order = 2
  /\ "email" \in DOMAIN ops[1].resp.props \cap DOMAIN ops[2].resp.props
  /\ ops[1].resp.props["email"] # ops[2].resp.props["email"]
  /\ self.props["email"] = ops[1].resp.props["email"]

---------------------------------------------------------------------------
(* Schema compilation: Model.init(schema, options), evaluated alone on      *)
(* every small schema.  A field is what init reads of it: whether it has a  *)
(* type and whether it is marked primaryKey.                                *)

MaxFields == 3     \* fields of a schema handed to init

RECURSIVE SeqsUpTo(_, _)
\* the sequences over S of length at most n
SeqsUpTo(S, n) ==
  IF n = 0 THEN {<<>>}
  ELSE LET shorter == SeqsUpTo(S, n - 1)
       IN shorter \cup {Append(q, x) : q \in {r \in shorter : Len(r) = n - 1}, x \in S}

SchemaInputs == SeqsUpTo([hasType : BOOLEAN, primaryKey : BOOLEAN], MaxFields)

RECURSIVE initFields(_, _, _)
\* `for (const fieldname in this.schema)` from field i on: the loop throws at
\* a field without a type, and the primary key is the last field marked so
initFields(fields, i, pk) ==
  IF i > Len(fields) THEN [threw |-> FALSE, primaryKeyFieldname |-> pk]
  ELSE IF ~fields[i].hasType THEN [threw |-> TRUE, primaryKeyFieldname |-> pk]
  ELSE initFields(fields, i + 1, IF fields[i].primaryKey THEN i ELSE pk)

\* Model.init: 0 stands for primaryKeyFieldname = null
init(configured, requireAuth, authToken, fields) ==
  IF ~configured \/ (requireAuth /\ ~authToken)
  THEN [threw |-> TRUE, primaryKeyFieldname |-> 0]
  ELSE LET done == initFields(fields, 1, 0) IN
       IF done.threw \/ done.primaryKeyFieldname = 0
       THEN [threw |-> TRUE, primaryKeyFieldname |-> done.primaryKeyFieldname]
       ELSE done

InitSchema ==
  /\ registry = "part_001"
  /\ self = New("User", Obj(EmptyProps), Options(TRUE), IdP)
  /\ states = IdleStates
  /\ ops = <<>>
  /\ now = 0
  /\ events = 0
  /\ uncaught = 0
  /\ lastValid = NoCall
  /\ lastSave = NoCall
  /\ named = {}
  /\ fetchOptions = 0
  /\ lastEdit = NoCall
  /\ edits = 0
  /\ \E configured \in BOOLEAN, requireAuth \in BOOLEAN, authToken \in BOOLEAN,
        fields \in SchemaInputs :
       probe = [k |-> "schema", configured |-> configured, requireAuth |-> requireAuth,
                authToken |-> authToken, fields |-> fields,
                threw |-> FALSE, primaryKeyFieldname |-> 0]

\* Model.init(schema, options) is called
Compile ==
  /\ probe.k = "schema"
  /\ LET done == init(probe.configured, probe.requireAuth, probe.authToken, probe.fields)
     IN probe' = [probe EXCEPT !.k = "compiled", !.threw = done.threw,
                               !.primaryKeyFieldname = done.primaryKeyFieldname]
  /\ UNCHANGED <<registry, self, states, ops, now, events, uncaught, lastValid,
                 lastSave, named, fetchOptions, lastEdit, edits>>

NextSchema == Compile

SpecSchema == InitSchema /\ [][NextSchema]_vars

\* the fields of a schema marked primaryKey
PrimaryKeys(fields) == {i \in 1..Len(fields) : fields[i].primaryKey}

\* C11: Model.init succeeds only for a schema with exactly one field marked
\* primary key; a schema with none and a schema with two or more both fail
\* with a configuration error.
C11_ExactlyOnePrimaryKey ==
  probe.k = "compiled" =>
    (~probe.threw => Cardinality(PrimaryKeys(probe.fields)) = 1)

---------------------------------------------------------------------------
(* A collection of Child entities and its pagination: getCollection,        *)
(* getMore, the completion of a collection request, add, remove and toggle. *)
(* The clock stands still in this part: the deadline is that of Spec.       *)

MaxCalls == 4      \* calls the caller makes on the collection
MaxCollOps == 3    \* of which requests
MaxEdits == 2      \* of which add(), remove() and toggle()
TotalRows == 50    \* rows the server holds for the resource

\* getCollection: `if (!params.limit) params.limit = 20`
DefaultLimit == 20

\* Model.config: collectionPattern defaults to {count: 'count', data: 'rows'}
collectionPattern == [count |-> "count", data |-> "rows"]

\* the n-th row of the resource as the server sends it
Row(n) == Obj(Props1("id", Num(n)))

\* the rows a request for (limit, offset) selects
Page(params) ==
  LET left == TotalRows - params.offset
      size == IF left < 0 THEN 0 ELSE IF left < params.limit THEN left ELSE params.limit
  IN [i \in 1..size |-> Row(params.offset + i)]

\* the body of the server's answer: a bare array of rows, or the rows wrapped
\* with the total count
Shapes == {"array", "wrapped", "results"}

\* "wrapped" carries the keys of the collection pattern, "results" the keys
\* count and results
ServerData(params, shape) ==
  CASE shape = "array" -> Arr(Page(params))
    [] shape = "wrapped" ->
         Obj(Props2(collectionPattern.count, Num(TotalRows),
                    collectionPattern.data, Arr(Page(params))))
    [] shape = "results" ->
         Obj(Props2("count", Num(TotalRows), "results", Arr(Page(params))))

\* Model._hasMatchedCollectionPattern(serverData)
hasMatchedCollectionPattern(serverData) ==
  /\ serverData.k = "obj"
  /\ has(serverData.props, collectionPattern.count)
  /\ has(serverData.props, collectionPattern.data)

\* _mutateData(newData) on a collection: extend is
\* has(this.$modelize, 'fetch') && this.$modelize.fetch.options.extend
mutateCollection(this, newData, extend) ==
  IF newData.k = "coll"
  THEN [this EXCEPT !.count = newData.count,
                    !.list = IF extend THEN this.list \o newData.list ELSE newData.list]
  ELSE \* an entity: each of its keys is assigned onto the collection (none of
       \* the bodies here carries a value that is an instance)
       [this EXCEPT !.props = [key \in DOMAIN this.props \cup DOMAIN newData.props |->
                                 IF key \in DOMAIN newData.props THEN newData.props[key]
                                 ELSE this.props[key]]]

\* hasMore()
hasMore(this) == Len(this.list) < this.count

\* the caller holds new Child([]) or a collection built from one raw item
InitColl ==
  /\ registry = "part_001"
  /\ \E data \in {Arr(<<>>), Arr(<<Row(TotalRows + 1)>>)}, fresh \in FreshIds :
       self = New("Child", data, Options(TRUE), fresh)
  /\ states = IdleStates
  /\ ops = <<>>
  /\ now = 0
  /\ events = 0
  /\ uncaught = 0
  /\ lastValid = NoCall
  /\ lastSave = NoCall
  /\ named = {}
  /\ fetchOptions = 0
  /\ lastEdit = NoCall
  /\ edits = 0
  /\ probe = NoCall

\* getCollection(options) from the defaults of params on: params is the object
\* the options carry (owner: the request whose call created it), and the URL
\* is built from its value now
getCollection(extend, owner, params) ==
  /\ Len(ops) < MaxCollOps
  /\ Len(ops) + edits < MaxCalls
  /\ endpoint
  /\ states' = setInProgress(states, "GET")
  /\ LET me == Len(ops) + 1
         p == [limit |-> IF params.limit = 0 THEN DefaultLimit ELSE params.limit,
               offset |-> params.offset]
         o == IF owner = 0 THEN me ELSE owner
         written == [j \in 1..Len(ops) |->
                       IF j = o THEN [ops[j] EXCEPT !.params = p] ELSE ops[j]]
     IN ops' = Append(written,
          [method |-> "GET", pk |-> Undefined, pc |-> "built", timer |-> "none",
           due |-> 0, resp |-> Undefined, order |-> 0,
           extend |-> extend, owner |-> o, asked |-> params, params |-> p,
           url |-> p])
  /\ Forget
  /\ UNCHANGED <<registry, self, now, events, uncaught, named, probe, fetchOptions, edits>>

\* getCollection(): params is {}, limit 0 standing for no limit given
GetCollection == getCollection(FALSE, 0, [limit |-> 0, offset |-> 0])

\* getMore(): the saved options' params get offset += limit, then
\* getCollection({action, params, extend: true}) with that same object
GetMore ==
  /\ fetchOptions # 0
  /\ LET owner == ops[fetchOptions].owner
         params == ops[owner].params
     IN getCollection(TRUE, owner, [params EXCEPT !.offset = @ + params.limit])

\* `await fetchResponse.json()` gives the body for the URL requested: the
\* collection pattern, new this.constructor(data, dataOptions), _mutateData,
\* the success flags, resolve with this
ParseColl(i, shape) ==
  /\ ops[i].pc = "json"
  /\ \E fresh \in FreshIds :
       LET serverData == ServerData(ops[i].url, shape)
           matched == hasMatchedCollectionPattern(serverData)
           data == IF matched THEN serverData.props[collectionPattern.data] ELSE serverData
           dataOptions == [isNew |-> FALSE, hasCount |-> matched,
                           count |-> IF matched
                                     THEN serverData.props[collectionPattern.count].n ELSE 0]
           formattedData == New(self.model, data, dataOptions, fresh)
       IN self' = mutateCollection(self, formattedData, ops[fetchOptions].extend)
  /\ ops' = [ops EXCEPT ![i].pc = "resolved", ![i].resp = Str(<<shape>>),
                        ![i].order = Cardinality(Completed) + 1]
  /\ states' = setSuccess(states, "GET")
  /\ Forget
  /\ UNCHANGED <<registry, now, events, uncaught, named, probe, fetchOptions, edits>>

\* what the caller passes to add, remove and toggle: nothing ({}), a raw item
\* with the key of a row, one with a key of its own, an entity of the class
EditItems ==
  {Obj(EmptyProps), Row(1), Row(TotalRows + 1)}
    \cup {New("Child", Row(1), Options(FALSE), fresh) : fresh \in FreshIds}

\* ref[this.constructor.primaryKeyFieldname]
keyOf(this, ref) ==
  IF ref.k \in {"obj", "item"} THEN Read(ref.props, primaryKeyFieldname(this.model))
  ELSE Undefined

\* this.items().findIndex(item => check(item)), counted from 1 (0: no item)
findIndex(this, ref) ==
  LET hits == {i \in 1..Len(this.list) : keyOf(this, this.list[i]) = keyOf(this, ref)}
  IN IF hits = {} THEN 0 ELSE CHOOSE i \in hits : \A j \in hits : i <= j

\* exists(ref)
exists(this, ref) == \E i \in 1..Len(this.list) : keyOf(this, this.list[i]) = keyOf(this, ref)

\* remove(ref): the collection afterwards and the index returned
remove(this, ref) ==
  LET at == findIndex(this, ref) IN
  IF at = 0 THEN [coll |-> this, ret |-> Num(-1)]
  ELSE [coll |-> [this EXCEPT !.list = SubSeq(@, 1, at - 1) \o SubSeq(@, at + 1, Len(@)),
                              !.count = @ - 1],
        ret |-> Num(at - 1)]

\* add(item) leaving the count as it was
add_keepsCount(this, item, fresh) ==
  LET instance == IF instanceOf(item, this.model) THEN item
                  ELSE New(this.model, item, Options(TRUE), fresh)
  IN [coll |-> [this EXCEPT !.list = Append(@, instance)], ret |-> instance]

\* add(item): the collection afterwards and the instance returned
add(this, item, fresh) ==
  LET instance == IF instanceOf(item, this.model) THEN item
                  ELSE New(this.model, item, Options(TRUE), fresh)
  IN [coll |-> [this EXCEPT !.list = Append(@, instance), !.count = @ + 1],
      ret |-> instance]

\* toggle(item)
toggle(this, item, fresh) ==
  IF exists(this, item) THEN remove(this, item) ELSE add(this, item, fresh)

\* a call of add, remove or toggle by the caller
Edit(name, item, done) ==
  /\ edits < MaxEdits
  /\ Len(ops) + edits < MaxCalls
  /\ self' = done.coll
  /\ lastEdit' = [k |-> name, item |-> item, ret |-> done.ret]
  /\ edits' = edits + 1
  /\ lastValid' = NoCall
  /\ lastSave' = NoCall
  /\ UNCHANGED <<registry, states, ops, now, events, uncaught, named, probe, fetchOptions>>

Add(item) == \E fresh \in FreshIds : Edit("add", item, add(self, item, fresh))

Remove(item) == Edit("remove", item, remove(self, item))

Toggle(item) == \E fresh \in FreshIds : Edit("toggle", item, toggle(self, item, fresh))

NextColl ==
  \/ GetCollection
  \/ GetMore
  \/ \E i \in 1..Len(ops) :
       \/ Send(i)
       \/ \E ok \in BOOLEAN : Respond(i, ok)
       \/ \E shape \in Shapes : ParseColl(i, shape)
  \/ \E item \in EditItems : Add(item) \/ Remove(item) \/ Toggle(item)

\* the lifecycle of one collection
SpecColl == InitColl /\ [][NextColl]_vars



\* C12: in every state reached after a collection fetch has completed
\* (getCollection or getMore, the response a bare array or a count/data
\* object, and after any later add, remove or toggle), the number of loaded
\* items is at most totalCount.
C12_LoadedWithinTotal ==
  Completed # {} => Len(self.list) <= self.count


\* the positions of the items that match ref before the call
Matching(ref) == {i \in 1..Len(self.list) : keyOf(self, self.list[i]) = keyOf(self, ref)}

\* C13: add(x) appends exactly one item at the end and increases totalCount
\* by exactly 1; remove(ref) when some item matches removes exactly one item,
\* the first match, decreases totalCount by exactly 1 and returns its index;
\* remove(ref) when no item matches changes neither the items nor totalCount
\* and returns -1.
C13_AddAndRemove ==
  [][/\ lastEdit'.k = "add" =>
          /\ self'.list = Append(self.list, lastEdit'.ret)
          /\ instanceOf(lastEdit'.item, self.model) => lastEdit'.ret = lastEdit'.item
          /\ self'.count = self.count + 1
     /\ (lastEdit'.k = "remove" /\ Matching(lastEdit'.item) # {}) =>
          \E at \in Matching(lastEdit'.item) :
            /\ \A j \in Matching(lastEdit'.item) : at <= j
            /\ Len(self'.list) = Len(self.list) - 1
            /\ \A j \in 1..Len(self'.list) :
                 self'.list[j] = IF j < at THEN self.list[j] ELSE self.list[j + 1]
            /\ self'.count = self.count - 1
            /\ lastEdit'.ret = Num(at - 1)
     /\ (lastEdit'.k = "remove" /\ Matching(lastEdit'.item) = {}) =>
          /\ self' = self
          /\ lastEdit'.ret = Num(-1)
    ]_vars

\* after a page was loaded, an item of the caller's was added behind it and
\* removed again
C13_Witness ==
  /\ edits = 2
  /\ lastEdit.k = "remove"
  /\ lastEdit.ret = Num(DefaultLimit)
  /\ Len(self.list) = DefaultLimit


\* the request issued by this step, 0 when the step issues none
Issued == IF Len(ops') = Len(ops) + 1 THEN Len(ops') ELSE 0

\* the request whose successful completion this step applies, 0 when none
Applied ==
  IF \E i \in 1..Len(ops) : ops[i].pc = "json" /\ ops'[i].pc = "resolved"
  THEN CHOOSE i \in 1..Len(ops) : ops[i].pc = "json" /\ ops'[i].pc = "resolved"
  ELSE 0

\* the items of the page a request asked for, as entities
Returned(i) == New(self.model, Arr(Page(ops[i].url)), Options(FALSE), IdP).list

\* C14: getCollection with no parameters requests limit=20 and offset=0; each
\* following getMore issues one request with an earlier request's parameters
\* except offset increased by limit, and on success appends the returned
\* items after the already loaded ones (none replaced or dropped) and sets
\* totalCount to the server's count.
C14_Pagination ==
  [][/\ (Issued # 0 /\ ~ops'[Issued].extend /\ ops'[Issued].asked.limit = 0) =>
          ops'[Issued].url = [limit |-> 20, offset |-> 0]
     /\ (Issued # 0 /\ ops'[Issued].extend) =>
          \E r \in 1..Len(ops) :
            ops'[Issued].url = [limit |-> ops[r].url.limit,
                                offset |-> ops[r].url.offset + ops[r].url.limit]
     /\ (Applied # 0 /\ ops[Applied].extend) =>
          /\ self'.list = self.list \o Returned(Applied)
          /\ ops'[Applied].resp = Str(<<"wrapped">>) => self'.count = TotalRows
    ]_vars


---------------------------------------------------------------------------
(* The lifecycle of one entity, continued.                                  *)

\* C15: once the fetch SuccessOnce flag is true it stays true in every later
\* state, whatever operations follow (fetches in progress, failing or timing
\* out, saves).
C15_SuccessOnceIsSticky ==
  [][states.fetchSuccessOnce => states'.fetchSuccessOnce]_vars

\* a fetch succeeded and a later fetch failed
C15_Witness ==
  /\ states.fetchSuccessOnce
  /\ ~states.fetchSuccess
  /\ states.fetchFailure
  /\ \E i \in 1..Len(ops) : ops[i].method = "GET" /\ ops[i].order = 1


\* C16: on the success path the response is turned into a fresh instance with
\* isNew=false, the fresh instance is mutated into the original, and only then
\* Success (and SuccessOnce for fetch) becomes true and InProgress false: in
\* no state of a single operation is Success true while the instance still
\* holds its pre-response data or while InProgress is still true.
C16_SuccessAfterMutation ==
  (Len(ops) = 1 /\ Success(states, ops[1].method)) =>
    /\ ops[1].pc = "resolved" /\ ops[1].order = 1
    /\ ops[1].resp # Undefined
    /\ ~self.isNew
    /\ HoldsLast(self, Fresh(1), Fresh(1))
    /\ ~InProgress(states, ops[1].method)
    /\ ops[1].method = "GET" => states.fetchSuccessOnce

\* a save of a new entity succeeded with a body carrying another email
C16_Witness ==
  /\ Len(ops) = 1
  /\ ops[1].method = "POST"
  /\ states.saveSuccess
  /\ "email" \in DOMAIN ops[1].resp.props
  /\ \E partial \in Partials :
       /\ "email" \in DOMAIN partial.props
       /\ partial.props["email"] # ops[1].resp.props["email"]
  /\ self.props["email"] = ops[1].resp.props["email"]


---------------------------------------------------------------------------
(* Construction: new User(partial), evaluated alone on every small partial. *)

Absent == [k |-> "absent"]

\* what the caller may put under each key of the partial
PartialChoices ==
  [id : {Absent, IdP, Blank, Num(0)},
   primaryKey : {Absent, IdC},
   email : {Absent, GoodEmail, BadEmail},
   child : {Absent, Null, ChildRaw(IdD, Label)},
   kids : {Absent, Arr(<<>>), Arr(<<ChildRaw(IdD, Blank)>>)}]

PartialOf(c) == Obj([f \in {g \in DOMAIN c : c[g] # Absent} |-> c[f]])

InitBuild ==
  /\ registry = "part_001"
  /\ self = New("User", Obj(EmptyProps), Options(TRUE), IdP)
  /\ states = IdleStates
  /\ ops = <<>>
  /\ now = 0
  /\ events = 0
  /\ uncaught = 0
  /\ lastValid = NoCall
  /\ lastSave = NoCall
  /\ named = {}
  /\ fetchOptions = 0
  /\ lastEdit = NoCall
  /\ edits = 0
  /\ \E c \in PartialChoices, fresh \in FreshIds :
       probe = [k |-> "partial", data |-> PartialOf(c), fresh |-> fresh, inst |-> Null]

\* new User(partial)
Build ==
  /\ probe.k = "partial"
  /\ probe' = [probe EXCEPT !.k = "built",
                            !.inst = New("User", probe.data, Options(TRUE), probe.fresh)]
  /\ UNCHANGED <<registry, self, states, ops, now, events, uncaught, lastValid,
                 lastSave, named, fetchOptions, lastEdit, edits>>

NextBuild == Build

SpecBuild == InitBuild /\ [][NextBuild]_vars

\* C17: building an entity from an empty partial yields an instance with a
\* value for every field of the schema, the primary key being the output of
\* the primary-key field's default factory; when the partial supplies the
\* primary key, that supplied value is the one on the instance.
C17_BuildKeepsSuppliedKey ==
  probe.k = "built" =>
    LET pk == primaryKeyFieldname("User") IN
    /\ probe.data = Obj(EmptyProps) =>
         /\ \A f \in FieldSet("User") :
              f \in DOMAIN probe.inst.props /\ probe.inst.props[f] # Undefined
         /\ probe.inst.props[pk] = probe.fresh
    /\ has(probe.data.props, pk) => probe.inst.props[pk] = probe.data.props[pk]


---------------------------------------------------------------------------
(* Serializing and deserializing a value of a static type: type.beforeSave  *)
(* then type.beforeBuild, evaluated alone on a sample of every kind of      *)
(* value, in a time zone west of UTC, UTC, and a zone east of it.           *)

RoundTripTypes == StaticTypes \cup {"PHONE", "FLOAT", "DATE", "DATETIME", "OBJECT"}

Hex32 == Str([i \in 1..32 |-> IF i % 3 = 0 THEN "a" ELSE IF i % 3 = 1 THEN "0" ELSE "f"])

RoundTripValues ==
  { Null, Blank, Label, GoodEmail, Hex32, dashUuid(Hex32),
    Str(<<"a", "-", "b">>), Str(<<"+", "1", " ", "2">>), Str(<<"1", "-", "2">>),
    Str(<<"1", "+", "2">>), Str(<<"0", "1">>),
    Bool(TRUE), Bool(FALSE),
    Num(0), Num(7), Num(120), Num(-1), Dec(0, <<"5">>), Dec(2, <<"2", "5">>),
    Date(30), Date(47), Date(48), Date(1000), InvalidDate,
    Obj(EmptyProps), Obj(Props1("a", Num(1))), Arr(<<>>), Arr(<<Num(1)>>) }

Offsets == {-5, 0, 2}

InitRound ==
  /\ registry = "part_001"
  /\ self = New("User", Obj(EmptyProps), Options(TRUE), IdP)
  /\ states = IdleStates
  /\ ops = <<>>
  /\ now = 0
  /\ events = 0
  /\ uncaught = 0
  /\ lastValid = NoCall
  /\ lastSave = NoCall
  /\ named = {}
  /\ fetchOptions = 0
  /\ lastEdit = NoCall
  /\ edits = 0
  /\ \E type \in RoundTripTypes, value \in RoundTripValues, tz \in Offsets :
       probe = [k |-> "value", type |-> type, value |-> value, tz |-> tz,
                saved |-> Null, built |-> Null]

\* a value the type accepts is serialized, and the result deserialized
RoundTrip ==
  /\ probe.k = "value"
  /\ typeIsValid(probe.type, "", probe.value)
  /\ LET saved == beforeSave(probe.type, "", probe.value)
     IN probe' = [probe EXCEPT !.k = "back", !.saved = saved,
                               !.built = beforeBuild(probe.type, "", saved,
                                                     Options(FALSE), IdP)]
  /\ UNCHANGED <<registry, self, states, ops, now, events, uncaught, lastValid,
                 lastSave, named, fetchOptions, lastEdit, edits>>

NextRound == RoundTrip

SpecRound == InitRound /\ [][NextRound]_vars

\* the characters that separate the groups of a phone number
Separators == {" ", "-", ".", "(", ")"}

\* v and w are the same value for the type: the same calendar day for a DATE,
\* the same digits for a UUID whatever its dashes, the same number for a PHONE
\* whatever its separators, and equal otherwise
SameValue(type, v, w) ==
  CASE type = "DATE" -> isDate(w) /\ LocalDay(v.t, LocalOffset) = LocalDay(w.t, LocalOffset)
    [] type = "UUID" -> isString(w) /\ undashUuid(v) = undashUuid(w)
    [] type = "PHONE" ->
         /\ isString(w)
         /\ SelectSeq(v.s, LAMBDA c : c \notin Separators)
              = SelectSeq(w.s, LAMBDA c : c \notin Separators)
    [] OTHER -> v = w

\* C18: for every static type T and every value v for which T.isValid(v)
\* holds, T.beforeBuild(T.beforeSave(v)) is semantically equal to v (PHONE
\* strings with separators, UUID strings, INTEGER and FLOAT values including
\* 0, DATE values compared by calendar day).
C18_RoundTrip ==
  probe.k = "back" => SameValue(probe.type, probe.value, probe.built)


\* operation i completes successfully in this step
SucceedsNow(i) == ops[i].order = 0 /\ ops'[i].order > 0

C20_ResponseAlwaysApplied ==
  \A i \in Mutators :
    /\ ops[i].pc = "resolved"
    /\ ops[i].order > 0
    /\ ops[i].order = Cardinality(Completed) => HoldsLast(self, Fresh(i), Fresh(i))


---------------------------------------------------------------------------
(* The collection, continued.                                               *)

\* the list ends with the items of page
EndsWith(list, page) ==
  /\ Len(list) >= Len(page)
  /\ SubSeq(list, Len(list) - Len(page) + 1, Len(list)) = page

\* C21: a successful collection response is recognised in both shapes: a bare
\* array gives the items and a totalCount equal to the array length; an object
\* carrying the count key and the data key, named `count` and `results` when
\* none are configured, gives the items from the data key and totalCount from
\* the count key, and adds no property named after those keys to the
\* collection.
C21_BothShapesRecognised ==
  [][Applied # 0 =>
       LET shape == ops'[Applied].resp.s[1]
           items == Returned(Applied)
       IN /\ shape = "array" =>
               /\ EndsWith(self'.list, items)
               /\ self'.count = Len(items)
          /\ shape = "results" =>
               /\ EndsWith(self'.list, items)
               /\ self'.count = TotalRows
               /\ self'.props = self.props
    ]_vars


---------------------------------------------------------------------------
(* Construction, continued.                                                 *)

\* C22: raw construction resolves the primary key in this order: the value of
\* the primary-key field in the partial if present, else partial.primaryKey,
\* else the output of the primary-key field's default factory; when the
\* partial carries both, the primary-key field's value is used.
C22_KeyResolutionOrder ==
  probe.k = "built" =>
    LET pk == primaryKeyFieldname("User")
        given == probe.data.props
    IN probe.inst.props[pk] =
         IF has(given, pk) THEN given[pk]
         ELSE IF has(given, "primaryKey") THEN given["primaryKey"]
         ELSE probe.fresh


---------------------------------------------------------------------------
(* Construction over schemas whose associations may refer to each other:    *)
(* new A({}) for two classes A and B, a schema being the association fields *)
(* of each class in declaration order (the other fields take no part).      *)

MaxStack == 6      \* nested calls the engine allows before its RangeError

Classes == {"A", "B"}

AssociationFields == [type : AssociationTypes, model : Classes]

SchemaGraphs ==
  {[c \in Classes |-> IF c = "A" THEN a ELSE b] :
     a \in SeqsUpTo(AssociationFields, 2), b \in SeqsUpTo(AssociationFields, 1)}

Overflow == [k |-> "overflow"]

RECURSIVE rawItemOf(_, _, _)
\* Model._buildRawItem(item) of a class for an item carrying none of its
\* association fields, at a depth of nested calls: HASMANY defaults to [],
\* HASONE and BELONGSTO default to the raw item of the class they refer to
rawItemOf(schema, class, depth) ==
  IF depth > MaxStack THEN Overflow
  ELSE LET fields == schema[class]
           values == [i \in 1..Len(fields) |->
                        IF fields[i].type = "HASMANY" THEN Arr(<<>>)
                        ELSE rawItemOf(schema, fields[i].model, depth + 1)]
       IN IF \E i \in 1..Len(fields) : values[i] = Overflow THEN Overflow
          ELSE [k |-> "raw", class |-> class, values |-> values]

RECURSIVE entitiesOf(_)
RECURSIVE entitiesFrom(_, _)
\* the entities new Model(raw, {isNew: true}) constructs: itself, and through
\* beforeBuild one for every raw item under an association field
entitiesOf(raw) == 1 + entitiesFrom(raw.values, 1)

entitiesFrom(values, i) ==
  IF i > Len(values) THEN 0
  ELSE (IF values[i].k = "raw" THEN entitiesOf(values[i]) ELSE 0)
       + entitiesFrom(values, i + 1)

InitCycle ==
  /\ registry = "part_001"
  /\ self = New("User", Obj(EmptyProps), Options(TRUE), IdP)
  /\ states = IdleStates
  /\ ops = <<>>
  /\ now = 0
  /\ events = 0
  /\ uncaught = 0
  /\ lastValid = NoCall
  /\ lastSave = NoCall
  /\ named = {}
  /\ fetchOptions = 0
  /\ lastEdit = NoCall
  /\ edits = 0
  /\ \E schema \in SchemaGraphs :
       probe = [k |-> "schema", schema |-> schema, overflow |-> FALSE, entities |-> 0]

\* new A({})
BuildEmpty ==
  /\ probe.k = "schema"
  /\ LET raw == rawItemOf(probe.schema, "A", 1) IN
       probe' = [probe EXCEPT !.k = "built",
                              !.overflow = (raw = Overflow),
                              !.entities = IF raw = Overflow THEN 0 ELSE entitiesOf(raw)]
  /\ UNCHANGED <<registry, self, states, ops, now, events, uncaught, lastValid,
                 lastSave, named, fetchOptions, lastEdit, edits>>

NextCycle == BuildEmpty

SpecCycle == InitCycle /\ [][NextCycle]_vars

\* C23: building an entity from an empty partial terminates for every compiled
\* schema, schemas whose association fields refer to each other in a cycle or
\* to their own schema included: association values that come from defaults
\* are placeholders and are not constructed.
C23_BuildTerminates ==
  probe.k = "built" => (~probe.overflow /\ probe.entities = 1)


---------------------------------------------------------------------------
(* The lifecycle of one entity, continued.                                  *)

\* the operations of the class of method that have not ended yet
Pending(method) ==
  {i \in 1..Len(ops) :
     /\ IsSave(ops[i].method) = IsSave(method)
     /\ ops[i].pc \in {"built", "sent", "json"}}

\* C24: in every reachable state, if the InProgress flag of a class is true
\* then an operation of that class is still pending on the instance: no
\* operation ends, by resolving or by rejecting, and leaves InProgress true.
C24_InProgressHasPending ==
  \A method \in {"GET", "POST"} :
    InProgress(states, method) => Pending(method) # {}


\* C25: in every reachable state, states reached by overlapping operations of
\* the same class included, at most one of InProgress, Success and Failure is
\* true for each operation class.
C25_FlagsExclusive ==
  \A method \in {"GET", "POST"} :
    /\ ~(Success(states, method) /\ Failure(states, method))
    /\ InProgress(states, method) => ~(Success(states, method) \/ Failure(states, method))


---------------------------------------------------------------------------
(* The collection, continued.                                               *)

\* C26: when a replacing getCollection and an extending getMore overlap on the
\* same collection, each completion applies the extend flag of its own
\* request: the getCollection completion replaces the item sequence and the
\* getMore completion appends, in whatever order the two responses arrive and
\* are parsed.
C26_OwnExtendFlag ==
  [][(Applied # 0 /\ ops'[Applied].resp.s[1] # "results") =>
       self'.list = IF ops[Applied].extend THEN self.list \o Returned(Applied)
                    ELSE Returned(Applied)
    ]_vars


\* every request has ended and the one issued last is a getMore that failed
LastMoreFailed ==
  /\ Len(ops) > 0
  /\ \A j \in 1..Len(ops) : ops[j].pc = "resolved"
  /\ ops[Len(ops)].extend
  /\ ops[Len(ops)].order = 0

\* C27: a getMore whose transport call fails leaves the pagination state of
\* the collection unchanged: the items and totalCount are as before the call,
\* and so is the recorded offset, so that the next getMore requests the same
\* page again and no page is skipped.
C27_FailedMoreIsRetried ==
  [][/\ \A i \in 1..Len(ops) :
          (FailsNow(i) /\ ops[i].extend) =>
            (self'.list = self.list /\ self'.count = self.count)
     /\ (LastMoreFailed /\ Issued # 0 /\ ops'[Issued].extend) =>
          ops'[Issued].url = ops[Len(ops)].url
    ]_vars


---------------------------------------------------------------------------
(* The deadline timer after the transport call has settled. *)

\* the transport call of request i has settled: fulfilled, or rejected
Settled(i) == ops[i].pc \notin {"built", "sent"}

\* C29: once the transport call of an operation has settled in any way
\* (fulfilled, non-success status, or rejected before the deadline) its
\* deadline timer is cancelled: the timer is not left armed, and it does not
\* fire (no abort signal, no exception thrown) for an operation that has
\* completed.
C29_TimerCancelledOnceSettled ==
  [][\A i \in 1..Len(ops) :
       Settled(i) =>
         /\ ops[i].timer # "armed"
         /\ ops'[i].timer = "fired" => ops[i].timer = "fired"
    ]_vars


---------------------------------------------------------------------------
(* The checked flags through validation and the fetch lifecycle together.   *)

\* the lists the caller passes to valid() between the steps of its requests
CheckedLists ==
  { Arr(<<Name("email")>>),
    Arr(<<Pair("child", Arr(<<Name("label")>>)), Name("nope")>>),
    Arr(<<Pair("kids", Arr(<<Name("label")>>))>>) }

NextChecked ==
  \/ \E fieldlist \in CheckedLists : Valid(fieldlist)
  \/ Get \/ Save
  \/ \E i \in 1..Len(ops) :
       \/ Send(i)
       \/ \E ok \in BOOLEAN : Respond(i, ok)
       \/ NetworkError(i)
       \/ \E serverData \in Payloads : Parse(i, serverData)
       \/ ParseError(i)

\* valid() calls interleaved with the requests of one entity
SpecChecked == Init /\ [][NextChecked]_vars


\* a flag that is true in entity a is true in b, the same entity a step later
KeepsChecked(a, b) ==
  (a.k = "item" /\ b.k = "item") =>
    \A f \in DOMAIN a.checked : a.checked[f] => b.checked[f]

\* the flags of entity a that are false and true in b, under the prefix
Raised(a, b, prefix) ==
  IF a.k = "item" /\ b.k = "item"
  THEN {prefix \o f : f \in {g \in DOMAIN a.checked : ~a.checked[g] /\ b.checked[g]}}
  ELSE {}

\* every flag of the entity is the bypassValidation flag of its field
AsBuilt(a) == a.k = "item" => a.checked = buildValidator(a.model)

\* the items of a collection held in a field, none when the field holds none
ItemsOf(inst, f) ==
  LET v == Read(inst.props, f) IN IF v.k = "coll" THEN v.list ELSE <<>>

\* the step is the `await fetchResponse.json()` continuation of a request
Completes == \E i \in 1..Len(ops) : ops[i].pc = "json" /\ ops'[i].pc # "json"

\* C28: the checked flag of every field of an entity is monotone: it starts
\* as the field's bypassValidation flag, becomes true only in a valid() call
\* that names the field, and no later step resets it: not a further valid()
\* call, not the completion of a fetch or save and its mutate, not a failed
\* operation.  The entity, the entity in its HasOne field, and the items of
\* its HasMany field are followed; a completion that replaces the items of the
\* HasMany field puts new entities there, whose flags start over.
C28_CheckedIsMonotone ==
  [][LET kids == ItemsOf(self, "kids")
         kids2 == ItemsOf(self', "kids")
         same == ~Completes /\ Len(kids) = Len(kids2)
         raised == Raised(self, self', "")
                   \cup Raised(Read(self.props, "child"), Read(self'.props, "child"), "child.")
                   \cup (IF same
                         THEN UNION {Raised(kids[n], kids2[n], "kids.") : n \in 1..Len(kids)}
                         ELSE {})
     IN /\ named = {} =>
             /\ AsBuilt(self) /\ AsBuilt(Read(self.props, "child"))
             /\ \A n \in 1..Len(kids) : AsBuilt(kids[n])
        /\ Completes => \A n \in 1..Len(kids2) : kids2[n] \in {kids[m] : m \in 1..Len(kids)}
                                                   \/ AsBuilt(kids2[n])
        /\ KeepsChecked(self, self')
        /\ KeepsChecked(Read(self.props, "child"), Read(self'.props, "child"))
        /\ same => \A n \in 1..Len(kids) : KeepsChecked(kids[n], kids2[n])
        /\ raised # {} => /\ lastValid'.k = "call"
                          /\ raised \subseteq NamesOf(lastValid'.list, "")
    ]_vars

\* C28 witness: the email and the label of the HasOne entity were checked by
\* valid() calls, then one request completed and another failed, and both
\* flags are still true
C28_Witness ==
  /\ lastValid = NoCall
  /\ {"email", "child.label"} \subseteq named
  /\ self.checked["email"] /\ ~bypassValidation("User", "email")
  /\ Read(self.props, "child").k = "item" /\ Read(self.props, "child").checked["label"]
  /\ \A i \in 1..Len(ops) : ops[i].pc = "resolved"
  /\ \E i, j \in 1..Len(ops) : ops[i].order > 0 /\ ops[j].order = 0


---------------------------------------------------------------------------
(* toggle() called twice. *)

\* the items of the collection have pairwise distinct primary keys
DistinctKeys(this) ==
  \A i, j \in 1..Len(this.list) :
    keyOf(this, this.list[i]) = keyOf(this, this.list[j]) => i = j

\* the primary keys of the items, in the order of the items
Keys(this) == [i \in 1..Len(this.list) |-> keyOf(this, this.list[i])]

\* C30: on a collection whose items have pairwise distinct primary keys,
\* toggle(item) called twice with the same instance carrying its primary key
\* restores the collection: the same items in the same order and the same
\* totalCount as before the two calls, whether or not the item was a member.
\* The step is the first call; the second is the call on the collection the
\* first one left.  The items are compared by their primary keys.
C30_ToggleTwiceRestores ==
  [][(/\ lastEdit'.k = "toggle" /\ edits' = edits + 1
      /\ instanceOf(lastEdit'.item, self.model)
      /\ keyOf(self, lastEdit'.item) # Undefined
      /\ DistinctKeys(self)) =>
       \A fresh \in FreshIds :
         LET twice == toggle(self', lastEdit'.item, fresh).coll
         IN Keys(twice) = Keys(self) /\ twice.count = self.count
    ]_vars

===========================================================================
